---- MODULE Spec2Model ----
(***************************************************************************)
(* Token lifecycle of src/services/auth.py (class Auth): the three token   *)
(* issuers create_access_token, create_refresh_token, create_email_token   *)
(* and the three resolvers get_current_user, decode_refresh_token,         *)
(* get_email_from_token, over a wall clock that only moves forward.        *)
(*                                                                         *)
(* Time is counted in whole seconds, the unit of the exp and iat claims    *)
(* that jwt.encode writes (timegm of the datetime) and that jwt.decode     *)
(* compares with timegm(utcnow()).  One handler runs within one second.    *)
(***************************************************************************)
EXTENDS Integers, FiniteSets, Sequences, TLC

VARIABLES now, ops, db, r, issued, last

vars == <<now, ops, db, r, issued, last>>

---------------------------------------------------------------------------
(* Bounds of the model *)

\* The number of issuances and clock advances in one run
MaxOps == 3

---------------------------------------------------------------------------
(* Program constants *)

ACCESS_EXPIRE_MINUTES == 15

REFRESH_EXPIRE_DAYS == 7

EMAIL_EXPIRE_DAYS == 7

HTTP_401_UNAUTHORIZED == 401

HTTP_422_UNPROCESSABLE_ENTITY == 422

SECRET_KEY == "settings.secret_key"

ALGORITHM == "settings.algorithm"

\* timedelta(minutes=m), timedelta(days=d), in seconds
minutes(m) == m * 60

days(d) == d * 86400

---------------------------------------------------------------------------
(* Inputs *)

\* Explicit expires_delta values a caller passes (seconds); 0 is the falsy
\* duration.
Deltas == {0, 1}

\* Caller-supplied data mappings: a plain subject, a mapping without sub, and
\* a mapping that tries to set scope, iat and exp itself, carries a free entry
\* and names a subject unknown to the user store.
DataChoices ==
    { [sub |-> "a@b.com"],
      <<>>,
      [sub |-> "c@d.com", scope |-> "access_token", iat |-> 0 - 5,
       exp |-> 999999999, name |-> "Ann"] }

\* Clock advances offered to the environment: one second, and the jumps that
\* land one second before the default lifetimes end.
Steps == { 1, minutes(ACCESS_EXPIRE_MINUTES) - 1, days(REFRESH_EXPIRE_DAYS) - 1 }

\* The user store read by repository_users.get_user_by_email
Registered == [e \in {"a@b.com"} |-> [email |-> e, refresh_token |-> "None"]]

None == [none |-> TRUE]

---------------------------------------------------------------------------
(* Outcomes of a call *)

Return(v) == [kind |-> "return", value |-> v]

HTTPException(status_code, detail, headers) ==
    [kind |-> "HTTPException", status_code |-> status_code,
     detail |-> detail, headers |-> headers]

KeyError(k) == [kind |-> "KeyError", key |-> k]

---------------------------------------------------------------------------
(* Token codec: jose.jwt as called by Auth *)

\* The JWS signature over a claims set under a key
sign(claims, key) == <<key, ALGORITHM, claims>>

\* jwt.encode(to_encode, self.SECRET_KEY, algorithm=self.ALGORITHM): the
\* three-segment compact token
jwt_encode(claims) ==
    [segments |-> 3, claims |-> claims, sig |-> sign(claims, SECRET_KEY)]

\* jwt.decode(token, self.SECRET_KEY, algorithms=[self.ALGORITHM]) without the
\* expiry check (options verify_exp off)
jwt_decode_no_exp(token) ==
    IF token.segments # 3
    THEN [ok |-> FALSE, error |-> "JWTError: Not enough segments"]
    ELSE IF token.sig # sign(token.claims, SECRET_KEY)
    THEN [ok |-> FALSE, error |-> "JWTError: Signature verification failed."]
    ELSE [ok |-> TRUE, payload |-> token.claims]

\* jwt.decode(token, self.SECRET_KEY, algorithms=[self.ALGORITHM]): structure,
\* signature, then expiry (ExpiredSignatureError, a JWTError, when exp < now)
jwt_decode(token) ==
    IF token.segments # 3
    THEN [ok |-> FALSE, error |-> "JWTError: Not enough segments"]
    ELSE IF token.sig # sign(token.claims, SECRET_KEY)
    THEN [ok |-> FALSE, error |-> "JWTError: Signature verification failed."]
    ELSE IF "exp" \in DOMAIN token.claims /\ token.claims.exp < now
    THEN [ok |-> FALSE, error |-> "ExpiredSignatureError: Signature has expired."]
    ELSE [ok |-> TRUE, payload |-> token.claims]

\* dict.update keeping the entries already present (the reverse precedence)
update_keep_existing(d, u) ==
    [k \in DOMAIN d \cup DOMAIN u |-> IF k \in DOMAIN d THEN d[k] ELSE u[k]]

\* to_encode.update({...}): the entries of u replace and extend those of d
update(d, u) ==
    [k \in DOMAIN d \cup DOMAIN u |-> IF k \in DOMAIN u THEN u[k] ELSE d[k]]

\* get_user_by_email(email, db): the user record or None
get_user_by_email(email) ==
    IF email \in DOMAIN db THEN db[email] ELSE None

---------------------------------------------------------------------------
(* Issuers: the claims each one encodes, and the caller's mapping afterwards *)

\* create_access_token with the update applied to the caller's mapping itself
access_token_claims_no_copy(data, given, expires_delta) ==
    LET expire == IF given /\ expires_delta # 0
                  THEN now + expires_delta
                  ELSE now + minutes(ACCESS_EXPIRE_MINUTES)
        to_encode == update(data, [iat |-> now, exp |-> expire,
                                   scope |-> "access_token"])
    IN  [to_encode |-> to_encode, data |-> to_encode]

\* create_access_token: to_encode is a copy of data, stamped with iat, exp and
\* scope; "if expires_delta:" is false for no argument and for 0
access_token_claims(data, given, expires_delta) ==
    LET expire == IF given /\ expires_delta # 0
                  THEN now + expires_delta
                  ELSE now + minutes(ACCESS_EXPIRE_MINUTES)
        to_encode == update(data, [iat |-> now, exp |-> expire,
                                   scope |-> "access_token"])
    IN  [to_encode |-> to_encode, data |-> data]

\* create_refresh_token
refresh_token_claims(data, given, expires_delta) ==
    LET expire == IF given /\ expires_delta # 0
                  THEN now + expires_delta
                  ELSE now + days(REFRESH_EXPIRE_DAYS)
        to_encode == update(data, [iat |-> now, exp |-> expire,
                                   scope |-> "refresh_token"])
    IN  [to_encode |-> to_encode, data |-> data]

\* create_email_token: no duration parameter
email_token_claims(data) ==
    LET expire == now + days(EMAIL_EXPIRE_DAYS)
        to_encode == update(data, [iat |-> now, exp |-> expire,
                                   scope |-> "email_token"])
    IN  [to_encode |-> to_encode, data |-> data]

---------------------------------------------------------------------------
(* Resolvers: the outcome of one call on a token at the present instant *)

credentials_exception ==
    HTTPException(HTTP_401_UNAUTHORIZED, "Could not validate credentials",
                  "WWW-Authenticate" :> "Bearer")

\* get_current_user decoding without the expiry check
get_current_user_no_exp(token) ==
    LET d == jwt_decode_no_exp(token) IN
    IF ~d.ok THEN credentials_exception
    ELSE IF "scope" \in DOMAIN d.payload /\ d.payload.scope = "access_token"
    THEN IF "sub" \notin DOMAIN d.payload THEN credentials_exception
         ELSE LET user == get_user_by_email(d.payload.sub) IN
              IF user = None THEN credentials_exception ELSE Return(user)
    ELSE credentials_exception

\* get_current_user with a failure message that names the cause
get_current_user_leaky(token) ==
    LET d == jwt_decode(token) IN
    IF ~d.ok
    THEN HTTPException(HTTP_401_UNAUTHORIZED, d.error,
                       "WWW-Authenticate" :> "Bearer")
    ELSE IF "scope" \in DOMAIN d.payload /\ d.payload.scope = "access_token"
    THEN IF "sub" \notin DOMAIN d.payload THEN credentials_exception
         ELSE LET user == get_user_by_email(d.payload.sub) IN
              IF user = None THEN credentials_exception ELSE Return(user)
    ELSE credentials_exception

\* get_current_user: payload.get("scope") and payload.get("sub") yield None
\* for a missing key; every failure raises credentials_exception
get_current_user(token) ==
    LET d == jwt_decode(token) IN
    IF ~d.ok THEN credentials_exception
    ELSE IF "scope" \in DOMAIN d.payload /\ d.payload.scope = "access_token"
    THEN IF "sub" \notin DOMAIN d.payload THEN credentials_exception
         ELSE LET user == get_user_by_email(d.payload.sub) IN
              IF user = None THEN credentials_exception ELSE Return(user)
    ELSE credentials_exception

\* decode_refresh_token without the scope test
decode_refresh_token_any_scope(refresh_token) ==
    LET d == jwt_decode(refresh_token) IN
    IF ~d.ok
    THEN HTTPException(HTTP_401_UNAUTHORIZED,
                       "Could not validate credentials", None)
    ELSE IF "sub" \notin DOMAIN d.payload THEN KeyError("sub")
    ELSE Return(d.payload.sub)

\* decode_refresh_token that honours only the newest refresh token of a subject
decode_refresh_token_single_active(refresh_token) ==
    LET d == jwt_decode(refresh_token) IN
    IF ~d.ok
    THEN HTTPException(HTTP_401_UNAUTHORIZED,
                       "Could not validate credentials", None)
    ELSE IF "scope" \notin DOMAIN d.payload THEN KeyError("scope")
    ELSE IF d.payload.scope = "refresh_token"
    THEN IF "sub" \notin DOMAIN d.payload THEN KeyError("sub")
         ELSE IF \E o \in issued :
                    /\ o.claims.scope = "refresh_token"
                    /\ "sub" \in DOMAIN o.claims
                    /\ o.claims.sub = d.payload.sub
                    /\ \/ o.claims.iat > d.payload.iat
                       \/ o.claims.iat = d.payload.iat
                          /\ o.claims.exp > d.payload.exp
         THEN HTTPException(HTTP_401_UNAUTHORIZED,
                            "Could not validate credentials", None)
         ELSE Return(d.payload.sub)
    ELSE HTTPException(HTTP_401_UNAUTHORIZED, "Invalid scope for token", None)

\* decode_refresh_token: payload['scope'] and payload['sub'] raise KeyError for
\* a missing key, which "except JWTError" does not catch
decode_refresh_token(refresh_token) ==
    LET d == jwt_decode(refresh_token) IN
    IF ~d.ok
    THEN HTTPException(HTTP_401_UNAUTHORIZED,
                       "Could not validate credentials", None)
    ELSE IF "scope" \notin DOMAIN d.payload THEN KeyError("scope")
    ELSE IF d.payload.scope = "refresh_token"
    THEN IF "sub" \notin DOMAIN d.payload THEN KeyError("sub")
         ELSE Return(d.payload.sub)
    ELSE HTTPException(HTTP_401_UNAUTHORIZED, "Invalid scope for token", None)

\* get_email_from_token answering a decode failure as the bearer resolvers do
get_email_from_token_401(token) ==
    LET d == jwt_decode(token) IN
    IF ~d.ok
    THEN HTTPException(HTTP_401_UNAUTHORIZED,
                       "Could not validate credentials", None)
    ELSE IF "scope" \notin DOMAIN d.payload THEN KeyError("scope")
    ELSE IF d.payload.scope = "email_token"
    THEN IF "sub" \notin DOMAIN d.payload THEN KeyError("sub")
         ELSE Return(d.payload.sub)
    ELSE HTTPException(HTTP_401_UNAUTHORIZED, "Invalid scope for token", None)

\* get_email_from_token
get_email_from_token(token) ==
    LET d == jwt_decode(token) IN
    IF ~d.ok
    THEN HTTPException(HTTP_422_UNPROCESSABLE_ENTITY,
                       "Invalid token for email verification", None)
    ELSE IF "scope" \notin DOMAIN d.payload THEN KeyError("scope")
    ELSE IF d.payload.scope = "email_token"
    THEN IF "sub" \notin DOMAIN d.payload THEN KeyError("sub")
         ELSE Return(d.payload.sub)
    ELSE HTTPException(HTTP_401_UNAUTHORIZED, "Invalid scope for token", None)

---------------------------------------------------------------------------
(* Token strings a caller can present *)

\* An issued token with one character of its payload segment changed: the
\* claims differ, the signature segment is the old one
CorruptPayload(t) ==
    [t EXCEPT !.claims = update(t.claims, [scope |-> "access_token",
                                           sub |-> "x@y.com"])]

\* A string that is no three-segment token
Garbage == [segments |-> 1, claims |-> <<>>, sig |-> <<>>]

Presentable ==
    issued \cup { CorruptPayload(t) : t \in issued }
           \cup { Garbage }

---------------------------------------------------------------------------
(* State machine *)

NoCall == [op |-> "none"]

Init ==
    /\ now = 0
    /\ ops = 0
    /\ db = Registered
    /\ r = {}
    /\ issued = {}
    /\ last = NoCall

Issued(op, res, data, given, expires_delta) ==
    LET token == jwt_encode(res.to_encode) IN
    /\ issued' = issued \cup {token}
    /\ last' = [op |-> op, at |-> now, data |-> data, given |-> given,
                expires_delta |-> expires_delta, data_after |-> res.data,
                token |-> token]
    /\ ops' = ops + 1
    /\ UNCHANGED <<now, db, r>>

CreateAccessToken ==
    \E data \in DataChoices, given \in BOOLEAN, expires_delta \in Deltas :
        /\ ops < MaxOps
        /\ given \/ expires_delta = 0
        /\ Issued("create_access_token",
                  access_token_claims(data, given, expires_delta),
                  data, given, expires_delta)

CreateRefreshToken ==
    \E data \in DataChoices, given \in BOOLEAN, expires_delta \in Deltas :
        /\ ops < MaxOps
        /\ given \/ expires_delta = 0
        /\ Issued("create_refresh_token",
                  refresh_token_claims(data, given, expires_delta),
                  data, given, expires_delta)

CreateEmailToken ==
    \E data \in DataChoices :
        /\ ops < MaxOps
        /\ Issued("create_email_token", email_token_claims(data),
                  data, FALSE, 0)

Resolved(op, token, out) ==
    /\ last' = [op |-> op, at |-> now, token |-> token, out |-> out]
    /\ UNCHANGED <<now, ops, db, r, issued>>

GetCurrentUser ==
    \E token \in Presentable :
        Resolved("get_current_user", token, get_current_user(token))

DecodeRefreshToken ==
    \E token \in Presentable :
        Resolved("decode_refresh_token", token, decode_refresh_token(token))

GetEmailFromToken ==
    \E token \in Presentable :
        Resolved("get_email_from_token", token, get_email_from_token(token))

\* The wall clock moves forward
Tick ==
    \E dt \in Steps :
        /\ ops < MaxOps
        /\ now' = now + dt
        /\ ops' = ops + 1
        /\ last' = NoCall
        /\ UNCHANGED <<db, r, issued>>

Next ==
    \/ CreateAccessToken
    \/ CreateRefreshToken
    \/ CreateEmailToken
    \/ GetCurrentUser
    \/ DecodeRefreshToken
    \/ GetEmailFromToken
    \/ Tick

Spec == Init /\ [][Next]_vars

---------------------------------------------------------------------------
(* Vocabulary of the properties *)

Issuers == {"create_access_token", "create_refresh_token", "create_email_token"}

Resolvers == {"get_current_user", "decode_refresh_token", "get_email_from_token"}

StampedKeys == {"iat", "exp", "scope"}

KindTag(op) ==
    CASE op = "create_access_token" -> "access_token"
      [] op = "create_refresh_token" -> "refresh_token"
      [] op = "create_email_token" -> "email_token"

AcceptedScope(op) ==
    CASE op = "get_current_user" -> "access_token"
      [] op = "decode_refresh_token" -> "refresh_token"
      [] op = "get_email_from_token" -> "email_token"

\* The lifetimes the issuance policy states: 15 minutes, 7 days, 7 days
PolicyLifetime(op) ==
    CASE op = "create_access_token" -> 15 * 60
      [] op = "create_refresh_token" -> 7 * 24 * 3600
      [] op = "create_email_token" -> 7 * 24 * 3600

Outcome(op, t) ==
    CASE op = "get_current_user" -> get_current_user(t)
      [] op = "decode_refresh_token" -> decode_refresh_token(t)
      [] op = "get_email_from_token" -> get_email_from_token(t)

Accepts(op, t) == Outcome(op, t).kind = "return"

\* The resolver an issuer's tokens are meant for
ResolverOf(op) ==
    CASE op = "create_access_token" -> "get_current_user"
      [] op = "create_refresh_token" -> "decode_refresh_token"
      [] op = "create_email_token" -> "get_email_from_token"

MatchingResolver(t) ==
    CASE t.claims.scope = "access_token" -> "get_current_user"
      [] t.claims.scope = "refresh_token" -> "decode_refresh_token"
      [] t.claims.scope = "email_token" -> "get_email_from_token"

WellFormed(t) == t.segments = 3

WellSigned(t) == WellFormed(t) /\ t.sig = sign(t.claims, SECRET_KEY)

\* A token its matching resolver can accept at all: it names a subject, and
\* for an access token the user store knows the subject
Resolvable(t) ==
    /\ "sub" \in DOMAIN t.claims
    /\ t.claims.scope = "access_token" => t.claims.sub \in DOMAIN db

\* Why get_current_user fails on a token, "none" when it does not
FailureCause(t) ==
    IF ~WellFormed(t) THEN "malformed"
    ELSE IF ~WellSigned(t) THEN "bad signature"
    ELSE IF t.claims.exp < now THEN "expired"
    ELSE IF t.claims.scope # "access_token" THEN "wrong scope"
    ELSE IF "sub" \notin DOMAIN t.claims THEN "missing sub"
    ELSE IF t.claims.sub \notin DOMAIN db THEN "user not found"
    ELSE "none"

---------------------------------------------------------------------------
(* C1 *)

\* C1: a resolver accepts an issued token only if the token's scope is the
\* resolver's own: get_current_user only access_token, decode_refresh_token
\* only refresh_token, get_email_from_token only email_token, at every instant.
ScopeEnforcement ==
    /\ \A t \in issued : \A op \in Resolvers :
           Accepts(op, t) => t.claims.scope = AcceptedScope(op)
    /\ (last.op \in Resolvers /\ last.token \in issued
            /\ last.out.kind = "return")
           => last.token.claims.scope = AcceptedScope(last.op)

\* A validly signed, unexpired token of another kind was presented to
\* decode_refresh_token or get_email_from_token or get_current_user and refused
WrongKindRefused ==
    /\ last.op \in Resolvers
    /\ last.token \in issued
    /\ last.token.claims.exp > now
    /\ "sub" \in DOMAIN last.token.claims
    /\ last.token.claims.scope # AcceptedScope(last.op)
    /\ last.out.kind # "return"

---------------------------------------------------------------------------
(* C2 *)

\* C2: every failure of get_current_user is the one credentials_exception
\* (401, "Could not validate credentials", WWW-Authenticate: Bearer); two
\* failing calls, whatever their causes, end in identical errors.
OpaqueAccessFailure ==
    /\ Cardinality({ get_current_user(t) :
                        t \in { u \in Presentable :
                                   ~Accepts("get_current_user", u) } }) <= 1
    /\ \A t \in Presentable :
           ~Accepts("get_current_user", t) =>
               /\ get_current_user(t).kind = "HTTPException"
               /\ get_current_user(t).status_code = 401
               /\ get_current_user(t).detail = "Could not validate credentials"
               /\ get_current_user(t).headers = ("WWW-Authenticate" :> "Bearer")
    /\ (last.op = "get_current_user" /\ last.out.kind # "return") =>
           /\ last.out.kind = "HTTPException"
           /\ last.out.status_code = 401
           /\ last.out.detail = "Could not validate credentials"
           /\ last.out.headers = ("WWW-Authenticate" :> "Bearer")

\* get_current_user has just failed while tokens failing for four different
\* causes are at hand
DistinctCausesFail ==
    /\ last.op = "get_current_user"
    /\ last.out.kind # "return"
    /\ Cardinality({ FailureCause(t) : t \in Presentable } \ {"none"}) >= 4

---------------------------------------------------------------------------
(* C3 *)

\* C3: every call of a resolver ends with a result or with an HTTP error of
\* status 401 or 422; no other error reaches the caller.
NoRawErrorReachesCaller ==
    last.op \in Resolvers =>
        \/ last.out.kind = "return"
        \/ /\ last.out.kind = "HTTPException"
           /\ last.out.status_code \in {401, 422}

---------------------------------------------------------------------------
(* C4 *)

\* C4: decode_refresh_token answers a validly signed, unexpired token of
\* another scope with 401 "Invalid scope for token", a token of invalid
\* signature or structure or an expired one with 401 "Could not validate
\* credentials", and never fails with anything but a 401.
RefreshExchangeErrors ==
    last.op = "decode_refresh_token" =>
        /\ (WellSigned(last.token) /\ now < last.token.claims.exp
                /\ last.token.claims.scope # "refresh_token")
               => /\ last.out.kind = "HTTPException"
                  /\ last.out.status_code = 401
                  /\ last.out.detail = "Invalid scope for token"
        /\ (~WellSigned(last.token) \/ now > last.token.claims.exp)
               => /\ last.out.kind = "HTTPException"
                  /\ last.out.status_code = 401
                  /\ last.out.detail = "Could not validate credentials"
        /\ last.out.kind # "return"
               => /\ last.out.kind = "HTTPException"
                  /\ last.out.status_code = 401

---------------------------------------------------------------------------
(* C5 *)

\* C5: get_email_from_token answers a token of invalid signature or structure
\* with 422 "Invalid token for email verification", never 401, and a validly
\* signed, unexpired token of another scope with 401 "Invalid scope for
\* token", never 422.
EmailTokenErrorKinds ==
    /\ \A t \in Presentable :
           /\ ~WellSigned(t) =>
                  get_email_from_token(t) =
                      HTTPException(422, "Invalid token for email verification",
                                    None)
           /\ (WellSigned(t) /\ now < t.claims.exp
                   /\ t.claims.scope # "email_token") =>
                  get_email_from_token(t) =
                      HTTPException(401, "Invalid scope for token", None)
    /\ (last.op = "get_email_from_token" /\ ~WellSigned(last.token)) =>
           /\ last.out.kind = "HTTPException"
           /\ last.out.status_code = 422
    /\ (last.op = "get_email_from_token" /\ WellSigned(last.token)
            /\ now < last.token.claims.exp
            /\ last.token.claims.scope # "email_token") =>
           /\ last.out.kind = "HTTPException"
           /\ last.out.status_code = 401

\* An email token with a corrupted payload segment was presented to
\* get_email_from_token and answered with 422
CorruptEmailTokenUnprocessable ==
    /\ last.op = "get_email_from_token"
    /\ \E t \in issued : /\ t.claims.scope = "email_token"
                         /\ last.token = CorruptPayload(t)
    /\ last.out.kind = "HTTPException"
    /\ last.out.status_code = 422

---------------------------------------------------------------------------
(* C6 *)

\* C6 as stated: a token is accepted only while now < exp; a call of any of
\* the three resolvers at an instant now >= exp rejects it.
ExpiryIsStrict ==
    (last.op \in Resolvers /\ last.token \in issued
         /\ last.at >= last.token.claims.exp)
        => last.out.kind # "return"

ExpiryBound ==
    /\ \A t \in issued :
           /\ Accepts(MatchingResolver(t), t) => now <= t.claims.exp
           /\ now > t.claims.exp => \A op \in Resolvers : ~Accepts(op, t)
    /\ (last.op \in Resolvers /\ last.token \in issued
            /\ last.out.kind = "return") => last.at <= last.token.claims.exp

ExpiryStep ==
    /\ now' >= now
    /\ \A t \in issued :
           now > t.claims.exp =>
               /\ now' > t.claims.exp
               /\ \A op \in Resolvers : ~Accepts(op, t)'

\* C6, amended: a token is accepted by its matching resolver only while
\* now <= exp (whole seconds: the second exp names is still accepted); in
\* every state with now > exp all three resolvers reject it; the clock never
\* goes backwards, and a token once rejected as expired is rejected by every
\* later call.
ExpiryOneWay == []ExpiryBound /\ [][ExpiryStep]_vars

\* A token its matching resolver would otherwise accept was presented after
\* its expiry and refused
ExpiredRefused ==
    /\ last.op \in Resolvers
    /\ last.token \in issued
    /\ last.op = MatchingResolver(last.token)
    /\ Resolvable(last.token)
    /\ last.token.claims.exp < now
    /\ last.out.kind = "HTTPException"

---------------------------------------------------------------------------
(* C7 *)

\* C7: with no duration an access token expires 15 minutes, a refresh token
\* 7 days and an email token 7 days after issuance; with an explicit duration
\* d >= 0, 0 included, exp is the issuance instant plus d.
LifetimePolicy ==
    last.op \in Issuers =>
        /\ ~last.given =>
               last.token.claims.exp = last.at + PolicyLifetime(last.op)
        /\ (last.given /\ last.expires_delta >= 0) =>
               last.token.claims.exp = last.at + last.expires_delta

---------------------------------------------------------------------------
(* C8 *)

\* C8: a token issued with sub = s and presented to its matching resolver
\* before its expiry yields s: decode_refresh_token and get_email_from_token
\* return s, get_current_user returns the user get_user_by_email finds for s.
RoundTrip ==
    /\ (last.op \in Issuers /\ "sub" \in DOMAIN last.data) =>
           /\ last.token.claims.sub = last.data.sub
           /\ last.token \in issued
           /\ (last.op # "create_access_token"
                   /\ now < last.token.claims.exp) =>
                  Outcome(ResolverOf(last.op), last.token) =
                      Return(last.data.sub)
           /\ (last.op = "create_access_token"
                   /\ now < last.token.claims.exp
                   /\ get_user_by_email(last.data.sub) # None) =>
                  get_current_user(last.token) =
                      Return(get_user_by_email(last.data.sub))
    /\ \A t \in issued :
           ("sub" \in DOMAIN t.claims /\ now < t.claims.exp) =>
               /\ t.claims.scope = "refresh_token" =>
                      decode_refresh_token(t) = Return(t.claims.sub)
               /\ t.claims.scope = "email_token" =>
                      get_email_from_token(t) = Return(t.claims.sub)
               /\ (t.claims.scope = "access_token"
                       /\ get_user_by_email(t.claims.sub) # None) =>
                      get_current_user(t) =
                          Return(get_user_by_email(t.claims.sub))
    /\ (last.op \in Resolvers /\ last.token \in issued
            /\ last.op = MatchingResolver(last.token)
            /\ Resolvable(last.token) /\ now < last.token.claims.exp) =>
           /\ last.out.kind = "return"
           /\ last.op # "get_current_user" =>
                  last.out.value = last.token.claims.sub
           /\ last.op = "get_current_user" =>
                  last.out.value = db[last.token.claims.sub]

\* An access token issued for a registered subject was resolved to that user
\* at a later instant before its expiry
UserResolved ==
    /\ last.op = "get_current_user"
    /\ last.token \in issued
    /\ last.token.claims.iat < now
    /\ now < last.token.claims.exp
    /\ last.out.kind = "return"
    /\ last.out.value.email = last.token.claims.sub

---------------------------------------------------------------------------
(* C9 *)

\* C9: after any sequence of issuances, resolutions and clock advances, every
\* issued token that has not reached its expiry (and that names a subject, for
\* an access token one the user store knows) is accepted by its matching
\* resolver, however many other tokens of the same subject have been issued
\* or resolved; the cache handle and the stored refresh tokens are as they
\* were at construction.
NoRevocation ==
    /\ r = {}
    /\ db = Registered
    /\ \A t \in issued :
           (Resolvable(t) /\ now < t.claims.exp) =>
               Accepts(MatchingResolver(t), t)
    /\ (last.op \in Resolvers /\ last.token \in issued
            /\ last.op = MatchingResolver(last.token)
            /\ Resolvable(last.token) /\ now < last.token.claims.exp) =>
           last.out.kind = "return"

\* decode_refresh_token accepted a refresh token although a newer unexpired
\* refresh token of the same subject had been issued
OlderRefreshTokenAccepted ==
    /\ last.op = "decode_refresh_token"
    /\ last.token \in issued
    /\ last.out.kind = "return"
    /\ \E o \in issued :
           /\ o # last.token
           /\ o.claims.scope = "refresh_token"
           /\ "sub" \in DOMAIN o.claims
           /\ o.claims.sub = last.out.value
           /\ o.claims.iat > last.token.claims.iat
           /\ now < o.claims.exp

---------------------------------------------------------------------------
(* C10 *)

\* C10: whatever the caller's mapping holds, scope, iat and exp entries
\* included, the issued claims carry the operation's own scope tag, iat equal
\* to the issuance instant and exp equal to that instant plus the default
\* lifetime or the caller's duration; every other entry is carried unchanged,
\* nothing else is added, and the caller's mapping is left as it was.
StampingNotOverridable ==
    last.op \in Issuers =>
        /\ last.token.claims.scope = KindTag(last.op)
        /\ last.token.claims.iat = last.at
        /\ \/ last.token.claims.exp = last.at + PolicyLifetime(last.op)
           \/ /\ last.given
              /\ last.token.claims.exp = last.at + last.expires_delta
        /\ DOMAIN last.token.claims = DOMAIN last.data \cup StampedKeys
        /\ \A k \in DOMAIN last.data \ StampedKeys :
               last.token.claims[k] = last.data[k]
        /\ last.data_after = last.data

\* An issuer was called with a mapping that carries its own scope, iat and exp
CallerStampsIgnored ==
    /\ last.op \in Issuers
    /\ StampedKeys \subseteq DOMAIN last.data
    /\ last.data.scope # last.token.claims.scope
    /\ last.data.exp # last.token.claims.exp
    /\ last.data.iat # last.token.claims.iat
    /\ last.token.claims.name = last.data.name

====
